---- MODULE Spec2Model ----
(***************************************************************************)
(* A model of the `train` command of kraken/ketos.py: option check,        *)
(* pre-parsing of the VGSL input descriptor, geometry resolution,          *)
(* train/test partition, corpus construction, and the epoch loop with      *)
(* periodic checkpoint saves and accuracy reports.                         *)
(*                                                                         *)
(* Strings are sequences of one-character strings.  An exception leaving   *)
(* `train` is recorded in `error` as [kind, line]: the exception type and  *)
(* the source line that raises it.                                         *)
(***************************************************************************)
EXTENDS Integers, Sequences, FiniteSets, Bags, TLC

VARIABLES
    pc,           \* position of the control flow inside train()
    error,        \* the exception that ended the run, or NoError
    load, codec,  \* whether -i / -c were given (truthiness is all the code reads)
    spec,         \* the -s option, stripped once ParseSpec has run
    pad,          \* the local variable pad (reassigned by the geometry cases)
    pad_option,   \* the value of -p/--pad as supplied by the caller
    batch, height, width, channels,
    format, scale,
    samples,      \* the ground_truth argument as passed (a tuple, never mutated)
    partition,    \* the ratio -p/--partition, as <<numerator, denominator>>
    ground_truth, \* list(ground_truth) after np.random.shuffle
    tr_im, te_im,
    gt_set, test_set,   \* the two GroundTruthDataset objects
    alpha_diff,   \* symmetric difference of the two alphabets (warning if non-empty)
    nn,           \* "none", "loaded" or "built"
    epochs, savefreq, report,
    iterations,   \* items taken from range(epochs) so far
    epoch, trial, \* loop variables
    steps,        \* optimizer.step() calls so far
    saves,        \* save_model attempts: sequence of [epoch, steps, ok]
    evals         \* compute_error calls: sequence of [epoch, steps, c, reported]

geometry_vars == <<spec, pad, pad_option, batch, height, width, channels, format, scale>>
corpus_vars == <<samples, partition, ground_truth, tr_im, te_im, gt_set, test_set, alpha_diff>>
loop_vars == <<nn, epochs, savefreq, report, iterations, epoch, trial, steps, saves, evals>>
vars == <<pc, error, load, codec, geometry_vars, corpus_vars, loop_vars>>

----------------------------------------------------------------------------
(* Characters and the string primitives the pre-parser uses.               *)

Digits == <<"0", "1", "2", "3", "4", "5", "6", "7", "8", "9">>
DigitChars == {Digits[i] : i \in 1..10}

\* str.strip(): drop leading and trailing whitespace
RECURSIVE lstrip(_)
lstrip(s) == IF s # <<>> /\ Head(s) = " " THEN lstrip(Tail(s)) ELSE s

RECURSIVE rstrip(_)
rstrip(s) == IF s # <<>> /\ s[Len(s)] = " " THEN rstrip(SubSeq(s, 1, Len(s) - 1)) ELSE s

strip(s) == rstrip(lstrip(s))

\* s.split(' '): cut at every single blank (adjacent blanks give empty blocks)
RECURSIVE split(_)
split(s) ==
    IF \A i \in 1..Len(s) : s[i] # " "
    THEN <<s>>
    ELSE LET i == CHOOSE j \in 1..Len(s) : s[j] = " " /\ \A k \in 1..(j - 1) : s[k] # " "
         IN  <<SubSeq(s, 1, i - 1)>> \o split(SubSeq(s, i + 1, Len(s)))

\* the index just after the run of digits of s that starts at index i (greedy \d+)
RECURSIVE DigitEnd(_, _)
DigitEnd(s, i) == IF i <= Len(s) /\ s[i] \in DigitChars THEN DigitEnd(s, i + 1) ELSE i

\* re.match(r'(\d+),(\d+),(\d+),(\d+)', s): anchored at the start of s only.
\* groups are the four digit runs, end is m.end() (characters consumed).
re_match(s) ==
    LET e1 == DigitEnd(s, 1)
        e2 == DigitEnd(s, e1 + 1)
        e3 == DigitEnd(s, e2 + 1)
        e4 == DigitEnd(s, e3 + 1)
        comma(e) == e <= Len(s) /\ s[e] = ","
        ok == /\ e1 > 1      /\ comma(e1)
              /\ e2 > e1 + 1 /\ comma(e2)
              /\ e3 > e2 + 1 /\ comma(e3)
              /\ e4 > e3 + 1
    IN  IF ok
        THEN [ok |-> TRUE,
              groups |-> <<SubSeq(s, 1, e1 - 1), SubSeq(s, e1 + 1, e2 - 1),
                           SubSeq(s, e2 + 1, e3 - 1), SubSeq(s, e3 + 1, e4 - 1)>>,
              end |-> e4 - 1]
        ELSE [ok |-> FALSE, groups |-> <<>>, end |-> 0]

\* int(x) of a string of decimal digits
DigitVal(c) == CHOOSE d \in 0..9 : Digits[d + 1] = c

RECURSIVE int(_)
int(x) == IF x = <<>> THEN 0 ELSE 10 * int(SubSeq(x, 1, Len(x) - 1)) + DigitVal(x[Len(x)])

----------------------------------------------------------------------------
(* Descriptors offered to the -s option.                                   *)

RECURSIVE DigitStr(_)
DigitStr(n) == IF n < 10 THEN <<Digits[n + 1]>> ELSE DigitStr(n \div 10) \o <<Digits[(n % 10) + 1]>>

Token(b, h, w, c) ==
    DigitStr(b) \o <<",">> \o DigitStr(h) \o <<",">> \o DigitStr(w) \o <<",">> \o DigitStr(c)

\* "[b,h,w,c<rest>]"
Descriptor(b, h, w, c, rest) == <<"[">> \o Token(b, h, w, c) \o rest \o <<"]">>

Heights == {0, 1, 2, 48}
Widths == {0, 1, 128}
Channels == {0, 1, 2, 3, 4, 48}
Layers == {<<>>, <<" ", "L", "b", "x", "1">>}
Pads == {0, 16}

WellFormedDescriptors ==
    {Descriptor(1, h, w, c, r) : h \in Heights, w \in Widths, c \in Channels, r \in Layers}

PaddedDescriptors ==
    {<<" ">> \o Descriptor(1, h, 0, 1, <<>>) \o <<" ", " ">> : h \in Heights}

MalformedDescriptors ==
    { <<>>, <<" ">>, <<" ", " ">>,
      <<"[">>, <<"]">>, <<"]", "[">>, <<"[", "]">>,
      Token(1, 48, 0, 1),
      <<"[">> \o Token(1, 48, 0, 1),
      Token(1, 48, 0, 1) \o <<"]">>,
      <<"[", "1", ",", "4", "8", ",", "0", "]">>,
      <<"[", "1", ",", "4", "8", ",", ",", "1", "]">>,
      <<"[", "-", "1", ",", "4", "8", ",", "0", ",", "1", "]">>,
      <<"[", "x">> \o Token(1, 48, 0, 1) \o <<"]">>,
      <<"[", " ">> \o Token(1, 48, 0, 1) \o <<"]">>,
      Descriptor(1, 48, 0, 1, <<"x">>),
      Descriptor(1, 48, 128, 1, <<",", "5">>),
      Descriptor(1, 0, 128, 1, <<"x", " ", "L">>) }

AllDescriptors == WellFormedDescriptors \cup PaddedDescriptors \cup MalformedDescriptors

RunDescriptors ==
    { Descriptor(1, 48, 128, 1, <<" ", "L">>),
      Descriptor(1, 0, 128, 1, <<>>),
      Descriptor(1, 48, 0, 1, <<"x">>),
      Token(1, 48, 0, 1),
      <<"[", "1", ",", "4", "8", ",", "0", "]">>,
      <<>> }

----------------------------------------------------------------------------
\* a GroundTruthDataset that has not been constructed yet
NoDataset ==
    [built |-> FALSE, normalization |-> "None", reorder |-> FALSE,
     scale_given |-> FALSE, scale |-> <<>>, pad |-> 0, format |-> <<>>,
     images |-> <<>>, encode_calls |-> 0, codec |-> "none",
     training_set |-> [assigned |-> FALSE, pairs |-> <<>>, one_shot |-> FALSE]]

NoError == [kind |-> "none", line |-> 0]
Raise(kind, line) == [kind |-> kind, line |-> line]

Init ==
    /\ pc = "start"
    /\ error = NoError
    /\ load = FALSE /\ codec = FALSE
    /\ spec = <<>> /\ pad = 0 /\ pad_option = 0
    /\ batch = 0 /\ height = 0 /\ width = 0 /\ channels = 0
    /\ format = <<>> /\ scale = <<>>
    /\ samples = <<>> /\ partition = <<0, 1>> /\ ground_truth = <<>>
    /\ tr_im = <<>> /\ te_im = <<>>
    /\ gt_set = NoDataset /\ test_set = NoDataset
    /\ alpha_diff = {}
    /\ nn = "none"
    /\ epochs = 0 /\ savefreq = 0 /\ report = 0
    /\ iterations = 0 /\ epoch = 0 /\ trial = 0
    /\ steps = 0 /\ saves = <<>> /\ evals = <<>>

\* if load and codec: raise click.BadOptionUsage(...)
CheckOptions ==
    /\ pc = "start"
    /\ \E l \in BOOLEAN, c \in BOOLEAN :
        /\ load' = l /\ codec' = c
        /\ IF l /\ c
           THEN pc' = "failed" /\ error' = Raise("BadOptionUsage", 95)
           ELSE pc' = "parse" /\ error' = error
    /\ UNCHANGED <<geometry_vars, corpus_vars, loop_vars>>

\* spec.strip(), the bracket test, split and re.match, then the four int()s
ParseSpecFrom(descriptors, pads) ==
    /\ pc = "parse"
    /\ \E d \in descriptors, p \in pads :
        LET s == strip(d)
            blocks == split(SubSeq(s, 2, Len(s) - 1))
            m == re_match(blocks[1])
        IN  /\ spec' = s
            /\ pad' = p /\ pad_option' = p
            /\ IF s = <<>>
               THEN \* spec[0] of the empty string
                    /\ pc' = "failed" /\ error' = Raise("IndexError", 100)
                    /\ UNCHANGED <<batch, height, width, channels>>
               ELSE IF s[1] # "[" \/ s[Len(s)] # "]"
               THEN /\ pc' = "failed" /\ error' = Raise("BadOptionUsage", 101)
                    /\ UNCHANGED <<batch, height, width, channels>>
               ELSE IF ~m.ok
               THEN /\ pc' = "failed" /\ error' = Raise("BadOptionUsage", 105)
                    /\ UNCHANGED <<batch, height, width, channels>>
               ELSE /\ pc' = "geometry" /\ error' = error
                    /\ batch' = int(m.groups[1])
                    /\ height' = int(m.groups[2])
                    /\ width' = int(m.groups[3])
                    /\ channels' = int(m.groups[4])
    /\ UNCHANGED <<load, codec, format, scale, corpus_vars, loop_vars>>

ParseAnySpec == ParseSpecFrom(AllDescriptors, Pads)

\* Geometry with the fixed-size case leaving the caller's padding in place
GeometryKeepsPad(h, w, c, p) ==
    IF h = 1 /\ w = 0 /\ c > 3
    THEN [ok |-> TRUE, format |-> <<1, 0, 2>>, scale |-> <<c>>, pad |-> p]
    ELSE IF h > 1 /\ w = 0 /\ c \in {1, 3}
    THEN [ok |-> TRUE, format |-> <<0, 1, 2>>, scale |-> <<h>>, pad |-> p]
    ELSE IF h > 0 /\ w > 0 /\ c \in {1, 3}
    THEN [ok |-> TRUE, format |-> <<0, 1, 2>>, scale |-> <<h, w>>, pad |-> p]
    ELSE IF h = 0 /\ w = 0 /\ c \in {1, 3}
    THEN [ok |-> TRUE, format |-> <<0, 1, 2>>, scale |-> <<0>>, pad |-> 0]
    ELSE [ok |-> FALSE, format |-> <<>>, scale |-> <<>>, pad |-> p]

\* Geometry with the fixed-size case written height >= 0 instead of height > 0
GeometryAnyHeight(h, w, c, p) ==
    IF h = 1 /\ w = 0 /\ c > 3
    THEN [ok |-> TRUE, format |-> <<1, 0, 2>>, scale |-> <<c>>, pad |-> p]
    ELSE IF h > 1 /\ w = 0 /\ c \in {1, 3}
    THEN [ok |-> TRUE, format |-> <<0, 1, 2>>, scale |-> <<h>>, pad |-> p]
    ELSE IF h >= 0 /\ w > 0 /\ c \in {1, 3}
    THEN [ok |-> TRUE, format |-> <<0, 1, 2>>, scale |-> <<h, w>>, pad |-> 0]
    ELSE IF h = 0 /\ w = 0 /\ c \in {1, 3}
    THEN [ok |-> TRUE, format |-> <<0, 1, 2>>, scale |-> <<0>>, pad |-> 0]
    ELSE [ok |-> FALSE, format |-> <<>>, scale |-> <<>>, pad |-> p]

\* the if/elif chain over (height, width, channels); the result is
\* [ok, format, scale, pad], scale being <<n>> for an int and <<h, w>> for a tuple
Geometry(h, w, c, p) ==
    IF h = 1 /\ w = 0 /\ c > 3
    THEN [ok |-> TRUE, format |-> <<1, 0, 2>>, scale |-> <<c>>, pad |-> p]
    ELSE IF h > 1 /\ w = 0 /\ c \in {1, 3}
    THEN [ok |-> TRUE, format |-> <<0, 1, 2>>, scale |-> <<h>>, pad |-> p]
    ELSE IF h > 0 /\ w > 0 /\ c \in {1, 3}
    THEN [ok |-> TRUE, format |-> <<0, 1, 2>>, scale |-> <<h, w>>, pad |-> 0]
    ELSE IF h = 0 /\ w = 0 /\ c \in {1, 3}
    THEN [ok |-> TRUE, format |-> <<0, 1, 2>>, scale |-> <<0>>, pad |-> 0]
    ELSE [ok |-> FALSE, format |-> <<>>, scale |-> <<>>, pad |-> p]

ResolveGeometry ==
    /\ pc = "geometry"
    /\ LET g == Geometry(height, width, channels, pad)
       IN  /\ format' = g.format /\ scale' = g.scale /\ pad' = g.pad
           /\ IF g.ok
              THEN pc' = "partition" /\ error' = error
              ELSE pc' = "failed" /\ error' = Raise("BadOptionUsage", 128)
    /\ UNCHANGED <<load, codec, spec, pad_option, batch, height, width, channels, corpus_vars, loop_vars>>

ParseSpec == ParseSpecFrom(RunDescriptors, {16})

----------------------------------------------------------------------------
(* Shuffle and partition (lines 136-139).  The ratio, a float in the code, *)
(* is a fraction <<numerator, denominator>> here.                          *)

MaxSamples == 2
Range(s) == {s[i] : i \in 1..Len(s)}
Occurrences(s, x) == Cardinality({i \in 1..Len(s) : s[i] = x})

\* the sample lists given on the command line: n distinct files, or ten
\* arguments naming two files
Iota(n) == [i \in 1..n |-> i]
ScenarioSamples == [i \in 1..10 |-> IF i = 10 THEN 2 ELSE 1]
Ratios == {<<1, 2>>, <<9, 10>>, <<1, 1>>}
PartitionInputs ==
    ({Iota(n) : n \in 0..MaxSamples} \X Ratios) \cup {<<ScenarioSamples, <<9, 10>>>>}

\* np.random.shuffle: every rearrangement of the list is a possible outcome
Shuffles(gt) ==
    {s \in [1..Len(gt) -> Range(gt)] : \A x \in Range(gt) : Occurrences(s, x) = Occurrences(gt, x)}

\* int(len(ground_truth) * partition)
SplitIndex(gt, r) == (Len(gt) * r[1]) \div r[2]

\* ground_truth[:int(len(ground_truth) * partition)]
TrainSlice(gt, r) == SubSeq(gt, 1, SplitIndex(gt, r))

\* a test slice that starts one element too late
TestSliceSkipsOne(gt, r) == SubSeq(gt, SplitIndex(gt, r) + 2, Len(gt))

\* ground_truth[int(len(ground_truth) * partition):]
TestSlice(gt, r) == SubSeq(gt, SplitIndex(gt, r) + 1, Len(gt))

Partition ==
    /\ pc = "partition"
    /\ \E in \in PartitionInputs :
        \E shuffled \in Shuffles(in[1]) :
            /\ samples' = in[1] /\ partition' = in[2]
            /\ ground_truth' = shuffled
            /\ tr_im' = TrainSlice(shuffled, in[2])
            /\ te_im' = TestSlice(shuffled, in[2])
    /\ pc' = "build_train"
    /\ UNCHANGED <<error, load, codec, geometry_vars, gt_set, test_set, alpha_diff, loop_vars>>

----------------------------------------------------------------------------
(* Corpus construction (lines 141-190).                                    *)

\* the transcription that goes with a line image
Text(im) == IF im % 2 = 1 THEN <<"a">> ELSE <<"a", "b">>
Alphabet(images) == UNION {Range(Text(images[i])) : i \in 1..Len(images)}

\* the values of -u and -n
CorpusOptions == {<<"None", TRUE>>, <<"NFC", FALSE>>}

\* GroundTruthDataset(tr_im, normalization=, reorder=, scale=scale, pad=pad, format=format)
\* followed by gt_set.add(im) for every im of tr_im
BuildTrainingSet ==
    /\ pc = "build_train"
    /\ \E o \in CorpusOptions :
        gt_set' = [NoDataset EXCEPT !.built = TRUE,
                                    !.normalization = o[1], !.reorder = o[2],
                                    !.scale_given = TRUE, !.scale = scale,
                                    !.pad = pad, !.format = format,
                                    !.images = tr_im]
    /\ pc' = "build_test"
    /\ UNCHANGED <<error, load, codec, geometry_vars, samples, partition, ground_truth,
                   tr_im, te_im, test_set, alpha_diff, loop_vars>>

\* GroundTruthDataset(te_im, normalization=, reorder=, pad=pad, format=format)
\* (no scale argument) followed by test_set.add(im) for every im of te_im
BuildTestSet ==
    /\ pc = "build_test"
    /\ test_set' = [NoDataset EXCEPT !.built = TRUE,
                                     !.normalization = gt_set.normalization,
                                     !.reorder = gt_set.reorder,
                                     !.pad = pad, !.format = format,
                                     !.images = te_im]
    /\ pc' = "alphabet"
    /\ UNCHANGED <<error, load, codec, geometry_vars, samples, partition, ground_truth,
                   tr_im, te_im, gt_set, alpha_diff, loop_vars>>

\* set(gt_set.alphabet).symmetric_difference(set(test_set.alphabet)); a warning only
CompareAlphabets ==
    /\ pc = "alphabet"
    /\ alpha_diff' = (Alphabet(gt_set.images) \ Alphabet(test_set.images))
                         \cup (Alphabet(test_set.images) \ Alphabet(gt_set.images))
    /\ pc' = "encode"
    /\ UNCHANGED <<error, load, codec, geometry_vars, samples, partition, ground_truth,
                   tr_im, te_im, gt_set, test_set, loop_vars>>

\* the encode step with the test set encoded as well (test_set.encode(codec))
EncodeTestToo ==
    /\ pc = "encode"
    /\ gt_set' = [gt_set EXCEPT !.encode_calls = @ + 1,
                                !.codec = IF codec THEN "supplied" ELSE "derived"]
    /\ \E lazy \in BOOLEAN :
        test_set' = [test_set EXCEPT !.encode_calls = @ + 1,
                                     !.codec = IF codec THEN "supplied" ELSE "derived",
                                     !.training_set =
                        [assigned |-> TRUE, pairs |-> test_set.images, one_shot |-> lazy]]
    /\ pc' = "network"
    /\ UNCHANGED <<error, load, codec, geometry_vars, samples, partition, ground_truth,
                   tr_im, te_im, alpha_diff, loop_vars>>

\* gt_set.encode(codec); test_set.training_set = zip(test_set._images, test_set._gt).
\* zip gives a list under Python 2 and a one-shot iterator under Python 3.
Encode ==
    /\ pc = "encode"
    /\ gt_set' = [gt_set EXCEPT !.encode_calls = @ + 1,
                                !.codec = IF codec THEN "supplied" ELSE "derived"]
    /\ \E lazy \in BOOLEAN :
        test_set' = [test_set EXCEPT !.training_set =
                        [assigned |-> TRUE, pairs |-> test_set.images, one_shot |-> lazy]]
    /\ pc' = "network"
    /\ UNCHANGED <<error, load, codec, geometry_vars, samples, partition, ground_truth,
                   tr_im, te_im, alpha_diff, loop_vars>>

----------------------------------------------------------------------------
(* Network set-up and the epoch loop (lines 192-255).                      *)

MaxEpochs == 3
MaxFreq == 2

\* load: vgsl.TorchVGSLModel.load_model(load); else a new model from the spec.
\* The values of -N, -F and -R are read by the loop that follows.
InitNetwork ==
    /\ pc = "network"
    /\ nn' = IF load THEN "loaded" ELSE "built"
    /\ \E n \in 0..MaxEpochs, f \in 1..MaxFreq, r \in 1..MaxFreq :
        epochs' = n /\ savefreq' = f /\ report' = r
    /\ pc' = "for"
    /\ UNCHANGED <<error, load, codec, geometry_vars, corpus_vars,
                   iterations, epoch, trial, steps, saves, evals>>

\* for epoch in range(epochs):
ForEpoch ==
    /\ pc = "for"
    /\ IF iterations < epochs
       THEN /\ epoch' = iterations /\ iterations' = iterations + 1
            /\ trial' = 0 /\ pc' = "batch"
       ELSE /\ pc' = "done"
            /\ UNCHANGED <<epoch, iterations, trial>>
    /\ UNCHANGED <<error, load, codec, geometry_vars, corpus_vars,
                   nn, epochs, savefreq, report, steps, saves, evals>>

\* the exception of line 236: the message is built from output.size(), and
\* `output` is the -o path (a string), the tensor being `o`
MismatchError == Raise("AttributeError", 236)

\* one pass of the inner loop: forward, size check, loss, backward, optimizer.step().
\* size2 is o.size(2) as the network produces it.
TrainStep ==
    /\ pc = "batch"
    /\ trial < Len(gt_set.images)
    /\ \E size2 \in {1, 2} :
        IF size2 # 1
        THEN /\ pc' = "failed" /\ error' = MismatchError
             /\ UNCHANGED <<trial, steps>>
        ELSE /\ steps' = steps + 1 /\ trial' = trial + 1
             /\ UNCHANGED <<pc, error>>
    /\ UNCHANGED <<load, codec, geometry_vars, corpus_vars,
                   nn, epochs, savefreq, report, iterations, epoch, saves, evals>>

\* a save that raises, with the exception left to propagate
AfterSaveUncaught(ok) ==
    IF ok THEN [pc |-> "report", error |-> NoError]
          ELSE [pc |-> "failed", error |-> Raise("Exception", 245)]

\* try: nn.save_model(...) except Exception as e: click.echo(...)
AfterSave(ok) == [pc |-> "report", error |-> NoError]

\* the save test without the `epoch and` part
SaveDueAtZero(e, f) == e % f = 0

\* the save test counting epochs from one
SaveDueOneBased(e, f) == (e + 1) % f = 0

\* if epoch and not epoch % savefreq
SaveDue(e, f) == e # 0 /\ e % f = 0

\* the save block that follows the inner loop
SaveCheckpoint ==
    /\ pc = "batch"
    /\ trial = Len(gt_set.images)
    /\ IF SaveDue(epoch, savefreq)
       THEN \E ok \in BOOLEAN :
               /\ saves' = Append(saves, [epoch |-> epoch, steps |-> steps, ok |-> ok])
               /\ pc' = AfterSave(ok).pc
               /\ error' = AfterSave(ok).error
       ELSE /\ pc' = "report"
            /\ UNCHANGED <<saves, error>>
    /\ UNCHANGED <<load, codec, geometry_vars, corpus_vars,
                   nn, epochs, savefreq, report, iterations, epoch, trial, steps, evals>>

\* compute_error(rec, test_set): total characters of the pairs it iterates over
RECURSIVE compute_error(_)
compute_error(pairs) ==
    IF pairs = <<>> THEN 0 ELSE Len(Text(Head(pairs))) + compute_error(Tail(pairs))

\* if epoch and not epoch % report
ReportDue(e, r) == e # 0 /\ e % r = 0

\* the report block: c, e = compute_error(...); echo of (c-e)/c
Report ==
    /\ pc = "report"
    /\ IF ReportDue(epoch, report)
       THEN LET ts == test_set.training_set
                c == compute_error(ts.pairs)
            IN  /\ test_set' = [test_set EXCEPT !.training_set.pairs =
                                    IF ts.one_shot THEN <<>> ELSE @]
                /\ evals' = Append(evals, [epoch |-> epoch, steps |-> steps,
                                           c |-> c, reported |-> c # 0])
                /\ IF c = 0
                   THEN pc' = "failed" /\ error' = Raise("ZeroDivisionError", 255)
                   ELSE pc' = "for" /\ error' = error
       ELSE /\ pc' = "for"
            /\ UNCHANGED <<test_set, evals, error>>
    /\ UNCHANGED <<load, codec, geometry_vars, samples, partition, ground_truth,
                   tr_im, te_im, gt_set, alpha_diff,
                   nn, epochs, savefreq, report, iterations, epoch, trial, steps, saves>>

Next ==
    \/ CheckOptions \/ ParseSpec \/ ResolveGeometry
    \/ Partition \/ BuildTrainingSet \/ BuildTestSet \/ CompareAlphabets \/ Encode
    \/ InitNetwork \/ ForEpoch \/ TrainStep \/ SaveCheckpoint \/ Report

Spec == Init /\ [][Next]_vars

----------------------------------------------------------------------------
(* Geometry resolution: claims C1 - C3.                                    *)

\* the option check and the pre-parser let the run through
Parsed == pc \notin {"start", "parse"} /\ error.line \notin {95, 100, 101, 105}
\* the if/elif chain has been evaluated
Resolved == Parsed /\ pc # "geometry"
\* the chain raised
Rejected == pc = "failed" /\ error = Raise("BadOptionUsage", 128)

Case1(h, w, c) == h = 1 /\ w = 0 /\ c > 3
Case2(h, w, c) == h > 1 /\ w = 0 /\ (c = 1 \/ c = 3)
Case3(h, w, c) == h > 0 /\ w > 0 /\ (c = 1 \/ c = 3)
Case4(h, w, c) == h = 0 /\ w = 0 /\ (c = 1 \/ c = 3)
NoCase(h, w, c) == ~Case1(h, w, c) /\ ~Case2(h, w, c) /\ ~Case3(h, w, c) /\ ~Case4(h, w, c)

\* C1: for a descriptor whose leading token is b,h,w,c and a caller padding p,
\* resolution yields the result of the first matching case:
\* (1) swapped axes, scale = channels, padding p; (2) default axes, scale =
\* height, padding p; (3) default axes, scale = (height, width), padding 0;
\* (4) default axes, no scaling, padding 0 -- a function of the descriptor and p.
C1_FirstMatchingCase ==
    Resolved =>
        \A h \in Heights, w \in Widths, c \in Channels, r \in Layers :
            spec = Descriptor(1, h, w, c, r) =>
                /\ <<batch, height, width, channels>> = <<1, h, w, c>>
                /\ Case1(h, w, c) =>
                       /\ ~Rejected
                       /\ format = <<1, 0, 2>> /\ scale = <<c>> /\ pad = pad_option
                /\ ~Case1(h, w, c) /\ Case2(h, w, c) =>
                       /\ ~Rejected
                       /\ format = <<0, 1, 2>> /\ scale = <<h>> /\ pad = pad_option
                /\ ~Case1(h, w, c) /\ ~Case2(h, w, c) /\ Case3(h, w, c) =>
                       /\ ~Rejected
                       /\ format = <<0, 1, 2>> /\ scale = <<h, w>> /\ pad = 0
                /\ ~Case1(h, w, c) /\ ~Case2(h, w, c) /\ ~Case3(h, w, c) /\ Case4(h, w, c) =>
                       /\ ~Rejected
                       /\ format = <<0, 1, 2>> /\ scale = <<0>> /\ pad = 0

\* "[1,48,128,1]" resolved with a caller padding of 16: padding forced to 0
C1_Witness ==
    /\ Resolved /\ ~Rejected
    /\ spec = Descriptor(1, 48, 128, 1, <<>>)
    /\ pad_option = 16 /\ pad = 0 /\ scale = <<48, 128>>

\* C2: resolution fails for every (height, width, channels) outside the four
\* cases -- in particular height = 0 with width > 0, width = 0 with height = 1
\* and channels in {1,3}, and channels in {0,2} -- and no such triple yields a
\* geometry.
C2_OtherTriplesRejected ==
    Resolved =>
        /\ NoCase(height, width, channels) => Rejected /\ format = <<>> /\ scale = <<>>
        /\ (height = 0 /\ width > 0) => Rejected
        /\ (width = 0 /\ height = 1 /\ channels \in {1, 3}) => Rejected
        /\ channels \in {0, 2} => Rejected
        /\ ~Rejected => ~NoCase(height, width, channels)

\* variable height with fixed width, rejected by the final else
C2_Witness == Rejected /\ height = 0 /\ width = 128 /\ channels = 1

\* a descriptor wrapped in a pair of brackets
Bracketed(s) == Len(s) >= 2 /\ s[1] = "[" /\ s[Len(s)] = "]"
\* the text up to the first blank
LeadingToken(s) ==
    LET n == CHOOSE k \in 0..Len(s) :
                 /\ \A i \in 1..k : s[i] # " "
                 /\ (k < Len(s) => s[k + 1] = " ")
    IN  SubSeq(s, 1, n)
IsNumber(x) == x # <<>> /\ \A i \in 1..Len(x) : x[i] \in DigitChars
\* exactly four non-negative integers separated by commas
FourIntegers(t) ==
    \E i, j, k \in 1..Len(t) :
        /\ i < j /\ j < k
        /\ t[i] = "," /\ t[j] = "," /\ t[k] = ","
        /\ IsNumber(SubSeq(t, 1, i - 1)) /\ IsNumber(SubSeq(t, i + 1, j - 1))
        /\ IsNumber(SubSeq(t, j + 1, k - 1)) /\ IsNumber(SubSeq(t, k + 1, Len(t)))
Malformed(s) ==
    \/ ~Bracketed(s)
    \/ ~FourIntegers(LeadingToken(SubSeq(s, 2, Len(s) - 1)))

\* C3: a descriptor that is not bracketed (the empty and the all-blank string
\* included), or whose leading token is not exactly four comma-separated
\* non-negative integers, fails with the invalid-spec error and no other kind of
\* failure, and never yields a geometry.
C3_MalformedIsInvalidSpec ==
    (pc \notin {"start", "parse", "geometry"} /\ error.line # 95 /\ Malformed(spec)) =>
        /\ pc = "failed"
        /\ error.kind = "BadOptionUsage"
        /\ format = <<>> /\ scale = <<>>

----------------------------------------------------------------------------
(* Partition, configuration errors and the epoch loop: claims C4 - C10.    *)

\* the shuffle and the two slices have been made
Partitioned == Resolved /\ ~Rejected /\ pc # "partition"

\* C4: the partition step gives len(train) + len(test) = len(samples),
\* len(train) = floor(len(samples) * ratio), train and test together a
\* rearrangement of the input (each element on exactly one side), and an empty
\* test side for ratio 1.
C4_PartitionSplits ==
    Partitioned =>
        LET n == Len(samples)
            k == Len(tr_im)
            num == partition[1]
            den == partition[2]
        IN  /\ Len(tr_im) + Len(te_im) = n
            /\ k * den <= n * num /\ n * num < (k + 1) * den
            /\ \A x \in Range(samples) \cup Range(tr_im) \cup Range(te_im) :
                   Occurrences(tr_im, x) + Occurrences(te_im, x) = Occurrences(samples, x)
            /\ (\A x \in Range(samples) : Occurrences(samples, x) = 1) =>
                   Range(tr_im) \cap Range(te_im) = {}
            /\ num = den => te_im = <<>>

\* two samples at ratio 1/2, the shuffle having swapped them
C4_Witness ==
    /\ Partitioned
    /\ samples = <<1, 2>> /\ partition = <<1, 2>>
    /\ tr_im = <<2>> /\ te_im = <<1>>

\* C5: a run with a configuration error (model and codec together, a malformed
\* descriptor, an unsupported triple) fails before the sample list is shuffled:
\* no corpus, network or checkpoint action happens in it.
C5_ConfigErrorsFailFirst ==
    LET conflict == load /\ codec
        descriptor_read == pc \notin {"start", "parse"} /\ error.line # 95
        config_error ==
            \/ conflict
            \/ descriptor_read /\ Malformed(spec)
            \/ Parsed /\ NoCase(height, width, channels)
    IN  config_error =>
            /\ pc \in {"geometry", "partition", "failed"}
            /\ pc = "failed" => error.line \in {95, 100, 101, 105, 128}
            /\ ground_truth = <<>> /\ ~gt_set.built /\ ~test_set.built
            /\ nn = "none" /\ steps = 0 /\ saves = <<>> /\ evals = <<>>

SaveEpochs == {saves[i].epoch : i \in 1..Len(saves)}
EvalEpochs == {evals[i].epoch : i \in 1..Len(evals)}
\* the run is past the save block, resp. the report block, of iteration e
SavePassed(e) ==
    /\ iterations > 0
    /\ \/ e < epoch
       \/ e = epoch /\ (pc \in {"report", "for", "done"} \/ (pc = "failed" /\ error.line = 255))
ReportPassed(e) ==
    /\ iterations > 0
    /\ \/ e < epoch
       \/ e = epoch /\ (pc \in {"for", "done"} \/ (pc = "failed" /\ error.line = 255))

\* C6: a checkpoint save that fails is caught and does not stop training: no run
\* ends because of a save, the loop still ends only after `epochs` iterations,
\* and the evaluation of the epoch whose save failed still runs when it is due.
C6_SaveFailureIsNotFatal ==
    /\ pc = "failed" => error.line # 245
    /\ pc = "done" => iterations = epochs
    /\ \A i \in 1..Len(saves) :
           (~saves[i].ok /\ ReportDue(saves[i].epoch, report) /\ ReportPassed(saves[i].epoch))
               => saves[i].epoch \in EvalEpochs

\* three epochs, the save of epoch 1 failed, its evaluation ran, and so did epoch 2
C6_Witness ==
    /\ pc = "done" /\ epochs = 3 /\ iterations = 3
    /\ Len(saves) > 0 /\ ~saves[1].ok /\ saves[1].epoch = 1
    /\ 1 \in EvalEpochs /\ 2 \in EvalEpochs
    /\ steps = 3 * Len(gt_set.images) /\ steps > 0

\* C7: with an empty test corpus the evaluation at a report boundary is skipped
\* or a no-op: it never raises, never divides by a zero count, and the loop
\* completes all `epochs` iterations.
C7_EmptyTestSetIsSkipped ==
    (test_set.built /\ test_set.images = <<>>) =>
        /\ ~(pc = "failed" /\ error.line = 255)
        /\ \A i \in 1..Len(evals) : evals[i].c # 0

LastSaveBlockPassed == epochs >= 1 /\ iterations = epochs /\ SavePassed(epochs - 1)

\* C9: when savefreq divides epochs the last iteration attempts a checkpoint
\* save (a run that completes normally has a checkpoint of the final network),
\* and when it does not, no save is attempted in the last iteration.
C9_FinalSaveIffDivides ==
    LastSaveBlockPassed => ((epochs % savefreq = 0) <=> (epochs - 1) \in SaveEpochs)

\* C9 as amended: the last iteration has epoch index epochs - 1, so it attempts
\* a save exactly when epochs > 1 and savefreq divides epochs - 1.
C9_FinalSaveIffDividesIndex ==
    LastSaveBlockPassed =>
        ((epochs > 1 /\ (epochs - 1) % savefreq = 0) <=> (epochs - 1) \in SaveEpochs)

\* savefreq = 2 does not divide epochs = 3, and the last iteration (epoch 2) saves
C9_Witness ==
    /\ pc = "done" /\ epochs = 3 /\ savefreq = 2
    /\ SaveEpochs = {2}

\* C10: a forward pass whose output has dimension 2 different from 1 ends the
\* run with the geometry-mismatch error (the input-exception type, carrying the
\* dimensions); the sample gets no optimizer step, and no later step, save or
\* evaluation happens.
C10_MismatchRaisesInputException ==
    (pc = "failed" /\ error.line = 236) =>
        /\ error.kind = "KrakenInputException"
        /\ steps = epoch * Len(gt_set.images) + trial
        /\ ~SavePassed(epoch) /\ ~ReportPassed(epoch)

----------------------------------------------------------------------------
(* The two corpora and the evaluation pairs: claims C11 - C13.             *)

\* C11: the train corpus and the test corpus are constructed with the same
\* configuration -- axis order, padding, scale mode, normalization and reorder
\* setting; the scale resolved from the descriptor is applied to the test
\* corpus exactly as to the train corpus.
C11_SameCorpusConfiguration ==
    (gt_set.built /\ test_set.built) =>
        /\ test_set.format = gt_set.format
        /\ test_set.pad = gt_set.pad
        /\ test_set.normalization = gt_set.normalization
        /\ test_set.reorder = gt_set.reorder
        /\ test_set.scale_given = gt_set.scale_given
        /\ test_set.scale = gt_set.scale

\* the run has entered the epoch loop
InLoop == pc \in {"for", "batch", "report", "done"} \/ (pc = "failed" /\ error.line \in {236, 255})

\* C12: in a run that reaches the training loop, encode is called on the train
\* corpus exactly once -- after all train and test samples are ingested, before
\* the network is loaded or built and before any optimizer step -- with the
\* supplied codec if there is one and with none otherwise; it is never called on
\* the test corpus, and an alphabet difference only warns, never stops the run.
C12_EncodeOnceTrainOnly ==
    /\ gt_set.encode_calls <= 1
    /\ test_set.encode_calls = 0 /\ test_set.codec = "none"
    /\ InLoop => gt_set.encode_calls = 1
    /\ gt_set.encode_calls = 1 =>
           /\ gt_set.built /\ test_set.built
           /\ gt_set.images = tr_im /\ test_set.images = te_im
           /\ gt_set.codec = (IF codec THEN "supplied" ELSE "derived")
    /\ gt_set.encode_calls = 0 => (nn = "none" /\ steps = 0 /\ iterations = 0)
    /\ (alpha_diff # {} /\ pc = "failed") => error.line \in {236, 255}

\* a finished run with a supplied codec and differing alphabets
C12_Witness ==
    /\ pc = "done" /\ steps > 0
    /\ codec /\ gt_set.encode_calls = 1 /\ gt_set.codec = "supplied"
    /\ test_set.images # <<>> /\ alpha_diff # {}

\* C13: the raw (image, text) pairs of the test corpus are retained unchanged for
\* the whole run: every report boundary, the first and each later one, evaluates
\* the complete set of test pairs built before training; one evaluation never
\* reduces or empties the pairs the next one sees.
C13_TestPairsRetained ==
    test_set.training_set.assigned =>
        /\ test_set.training_set.pairs = te_im
        /\ \A i \in 1..Len(evals) : evals[i].c = compute_error(te_im)

NextGeometry == CheckOptions \/ ParseAnySpec \/ ResolveGeometry

SpecGeometry == Init /\ [][NextGeometry]_vars

====
